---- MODULE Spec2Model ----
(***************************************************************************)
(* Model of src/zabbix_setup_config.py: the NetBox script                  *)
(* ZabbixConfigFromCOT.  One run checks the zabbix_status custom field,    *)
(* discovers and loads the template catalog, then walks Devices and        *)
(* VirtualMachines inside one transaction, filling template, SLA and       *)
(* readiness custom fields.                                                *)
(*                                                                         *)
(* Python values are tagged records [t, i, s, l, d]:                       *)
(*   t  the Python type ("none", "bool", "int", "str", "list", "dict");    *)
(*   i  the number of an int, 0/1 for a bool;                              *)
(*   s  the characters of a str, as a sequence of one-character strings;   *)
(*   l  the items of a list;   d  the entries of a dict (key -> value).    *)
(* A dict such as custom_field_data is a function from its keys.           *)
(***************************************************************************)
EXTENDS Integers, Sequences, FiniteSets, TLC

NoD == [k \in {} |-> 0]

None == [t |-> "none", i |-> 0, s |-> <<>>, l |-> <<>>, d |-> NoD]

PyStr(s) == [t |-> "str", i |-> 0, s |-> s, l |-> <<>>, d |-> NoD]

PyInt(n) == [t |-> "int", i |-> n, s |-> <<>>, l |-> <<>>, d |-> NoD]

PyBool(b) == [t |-> "bool", i |-> IF b THEN 1 ELSE 0, s |-> <<>>, l |-> <<>>, d |-> NoD]

PyList(l) == [t |-> "list", i |-> 0, s |-> <<>>, l |-> l, d |-> NoD]

PyDict(d) == [t |-> "dict", i |-> 0, s |-> <<>>, l |-> <<>>, d |-> d]

\* dict.get(k): None for a missing key
Get(dct, k) == IF k \in DOMAIN dct THEN dct[k] ELSE None

\* dict[k] = v
Put(dct, k, v) == [x \in DOMAIN dct \cup {k} |-> IF x = k THEN v ELSE dct[x]]

(***************************************************************************)
(* Strings                                                                 *)
(***************************************************************************)
IsSpace(c) == c \in {" ", "\t"}

Digits == <<"0", "1", "2", "3", "4", "5", "6", "7", "8", "9">>

IsDigit(c) == \E k \in 1..10 : Digits[k] = c

DigitVal(c) == (CHOOSE k \in 1..10 : Digits[k] = c) - 1

\* str.lower() on one character
LowerChar(c) ==
    CASE c = "A" -> "a" [] c = "B" -> "b" [] c = "C" -> "c" [] c = "D" -> "d"
      [] c = "E" -> "e" [] c = "F" -> "f" [] c = "G" -> "g" [] c = "H" -> "h"
      [] c = "I" -> "i" [] c = "J" -> "j" [] c = "K" -> "k" [] c = "L" -> "l"
      [] c = "M" -> "m" [] c = "N" -> "n" [] c = "O" -> "o" [] c = "P" -> "p"
      [] c = "Q" -> "q" [] c = "R" -> "r" [] c = "S" -> "s" [] c = "T" -> "t"
      [] c = "U" -> "u" [] c = "V" -> "v" [] c = "W" -> "w" [] c = "X" -> "x"
      [] c = "Y" -> "y" [] c = "Z" -> "z"
      [] OTHER -> c

Lower(s) == [k \in 1..Len(s) |-> LowerChar(s[k])]

RECURSIVE LStrip(_)
LStrip(s) == IF s # <<>> /\ IsSpace(Head(s)) THEN LStrip(Tail(s)) ELSE s

RECURSIVE RStrip(_)
RStrip(s) ==
    IF s # <<>> /\ IsSpace(s[Len(s)]) THEN RStrip(SubSeq(s, 1, Len(s) - 1)) ELSE s

\* str.strip()
Strip(s) == RStrip(LStrip(s))

\* str.split(","): the pieces between commas, empty pieces included
RECURSIVE SplitFrom(_, _)
SplitFrom(s, cur) ==
    IF s = <<>> THEN <<cur>>
    ELSE IF Head(s) = "," THEN <<cur>> \o SplitFrom(Tail(s), <<>>)
    ELSE SplitFrom(Tail(s), Append(cur, Head(s)))

Split(s) == SplitFrom(s, <<>>)

\* ",".join(parts)
RECURSIVE Join(_)
Join(parts) ==
    IF parts = <<>> THEN <<>>
    ELSE IF Len(parts) = 1 THEN parts[1]
    ELSE parts[1] \o <<",">> \o Join(Tail(parts))

\* str(n) for an int
RECURSIVE NatStr(_)
NatStr(n) == IF n < 10 THEN <<Digits[n + 1]>> ELSE NatStr(n \div 10) \o <<Digits[(n % 10) + 1]>>

IntStr(n) == IF n < 0 THEN <<"-">> \o NatStr(-n) ELSE NatStr(n)

\* str(v) of a scalar; lists and dicts print with brackets, never blank
Str(v) ==
    CASE v.t = "str" -> v.s
      [] v.t = "int" -> IntStr(v.i)
      [] v.t = "bool" -> IF v.i = 1 THEN <<"T", "r", "u", "e">> ELSE <<"F", "a", "l", "s", "e">>
      [] v.t = "none" -> <<"N", "o", "n", "e">>
      [] v.t = "list" -> <<"[", "]">>
      [] OTHER -> <<"{", "}">>

\* int(x) succeeds: ints, bools, and strings of digits with optional sign
\* and surrounding whitespace
IsNumeral(s) ==
    LET b == Strip(s)
        u == IF b # <<>> /\ Head(b) \in {"-", "+"} THEN Tail(b) ELSE b
    IN  u # <<>> /\ \A k \in 1..Len(u) : IsDigit(u[k])

RECURSIVE DigitsVal(_)
DigitsVal(u) ==
    IF u = <<>> THEN 0 ELSE DigitsVal(SubSeq(u, 1, Len(u) - 1)) * 10 + DigitVal(u[Len(u)])

Numeral(s) ==
    LET b == Strip(s)
    IN  IF Head(b) = "-" THEN 0 - DigitsVal(Tail(b))
        ELSE IF Head(b) = "+" THEN DigitsVal(Tail(b))
        ELSE DigitsVal(b)

IntOk(v) == v.t \in {"int", "bool"} \/ (v.t = "str" /\ IsNumeral(v.s))

IntOf(v) == IF v.t = "str" THEN Numeral(v.s) ELSE v.i

\* try: x = int(x) / except: pass
TryInt(v) == IF IntOk(v) THEN PyInt(IntOf(v)) ELSE v

\* Python truth value of a value
Truthy(v) ==
    CASE v.t = "none" -> FALSE
      [] v.t \in {"int", "bool"} -> v.i # 0
      [] v.t = "str" -> v.s # <<>>
      [] v.t = "list" -> v.l # <<>>
      [] OTHER -> DOMAIN v.d # {}

\* Python ==, restricted to the scalars the script compares
PyEq(a, b) ==
    CASE a.t \in {"int", "bool"} /\ b.t \in {"int", "bool"} -> a.i = b.i
      [] a.t = "str" /\ b.t = "str" -> a.s = b.s
      [] a.t = "none" /\ b.t = "none" -> TRUE
      [] OTHER -> FALSE

\* v in (None, "")
InNoneEmpty(v) == PyEq(v, None) \/ PyEq(v, PyStr(<<>>))

\* v in (None, "", 0)
InNoneEmptyZero(v) == InNoneEmpty(v) \/ PyEq(v, PyInt(0))

(***************************************************************************)
(* Configuration                                                           *)
(***************************************************************************)
NAME_KEYS == <<"template_name", "name", "template">>

ID_KEYS == <<"template_id", "id", "zabbix_template_id">>

IFACE_KEYS == <<"template_interface_id", "iface_id", "interface_id">>

JSON_CONTAINERS == <<"data", "payload", "attributes", "values">>

PLATFORM_FIELD_NAMES == <<"platform", "platforms">>

PLATFORM_JSON_KEYS ==
    <<"platform", "platforms",
      "platform_id", "platform_ids", "platform_pk", "platform_pks",
      "platform_name", "platform_names", "platform_slug", "platform_slugs">>

(***************************************************************************)
(* Basic utilities                                                         *)
(***************************************************************************)
\* _norm_str: the stripped text of v, or None when v is None or blank
NormStr(v) ==
    IF v.t = "none" THEN None
    ELSE IF Strip(Str(v)) = <<>> THEN None
    ELSE PyStr(Strip(Str(v)))

TrueWords ==
    { <<"t", "r", "u", "e">>, <<"1">>, <<"y", "e", "s">>, <<"y">>, <<"o", "n">> }

\* _is_true
IsTrue(v) ==
    CASE v.t = "bool" -> v.i = 1
      [] v.t = "int" -> v.i = 1
      [] v.t = "str" -> Lower(Strip(v.s)) \in TrueWords
      [] OTHER -> FALSE

\* _cf: a copy of obj.custom_field_data, {} when it is None or empty
Cf(obj) == obj.custom_field_data

\* _has_primary_v4
HasPrimaryV4(obj) == obj.primary_ip4_id # 0

\* _desc: description, else comments
Desc(obj) ==
    IF NormStr(obj.description).t # "none" THEN NormStr(obj.description)
    ELSE NormStr(obj.comments)

\* _role: device_role or role; a role is [present, custom_field_data]
Role(obj) == IF obj.device_role.present THEN obj.device_role ELSE obj.role

(***************************************************************************)
(* Catalog rows.  A row is [a, rel]: a maps each attribute the row has     *)
(* (columns, the primary key "id", JSON containers) to its value; rel maps *)
(* each relation attribute named platform/platforms to                     *)
(*   [k |-> "fk", pks |-> <<pk>>]     a related object with that pk,       *)
(*   [k |-> "m2m", pks |-> <<...>>]   a manager whose all() yields them,   *)
(*   [k |-> "err", pks |-> <<>>]      a manager whose all() raises,        *)
(*   [k |-> "null", pks |-> <<>>]     None.                                *)
(* platformTable is the Platform table, in the order filter().first()      *)
(* sees it.                                                                *)
(***************************************************************************)
SeqToSet(q) == { q[k] : k \in 1..Len(q) }

\* the first of cands that is in names, "None" when there is none
FirstIn(cands, names) ==
    IF \E k \in 1..Len(cands) : cands[k] \in names
    THEN cands[CHOOSE k \in 1..Len(cands) :
            cands[k] \in names /\ \A j \in 1..(k - 1) : cands[j] \notin names]
    ELSE "None"

\* _json_container_name: a concrete field first, else a class attribute
JsonContainerName(Model) ==
    IF FirstIn(JSON_CONTAINERS, Model.fields) # "None"
    THEN FirstIn(JSON_CONTAINERS, Model.fields)
    ELSE FirstIn(JSON_CONTAINERS, Model.class_attrs)

\* the row's JSON blob when json_name names a dict attribute, else no dict
Blob(row, json_name) ==
    IF json_name # "None" /\ json_name \in DOMAIN row.a /\ row.a[json_name].t = "dict"
    THEN row.a[json_name].d
    ELSE NoD

\* the keys of dct whose value is not in (None, "")
Usable(dct) == { k \in DOMAIN dct : dct[k].t # "none" /\ ~(dct[k].t = "str" /\ dct[k].s = <<>>) }

\* the value under the first key with a usable value, None without one
FirstUsable(keys, dct, usable) ==
    IF FirstIn(keys, usable) = "None" THEN None ELSE dct[FirstIn(keys, usable)]

\* _get_attr_or_json: first usable direct attribute, else first usable JSON key
GetAttrOrJson(row, keys, json_name) ==
    IF FirstIn(keys, Usable(row.a)) # "None"
    THEN FirstUsable(keys, row.a, Usable(row.a))
    ELSE FirstUsable(keys, Blob(row, json_name), Usable(Blob(row, json_name)))

\* the pk of the first Platform whose field f equals s ignoring case, 0 for none
FirstPlatform(s, platformTable, f) ==
    IF \E k \in 1..Len(platformTable) : Lower(platformTable[k][f]) = s
    THEN platformTable[CHOOSE k \in 1..Len(platformTable) :
            /\ Lower(platformTable[k][f]) = s
            /\ \A j \in 1..(k - 1) : Lower(platformTable[j][f]) # s].pk
    ELSE 0

\* add_by_name_or_slug: the Platform by name, else by slug; nothing for none
AddByNameOrSlug(s, platformTable) ==
    IF FirstPlatform(Lower(s), platformTable, "name") # 0
    THEN { FirstPlatform(Lower(s), platformTable, "name") }
    ELSE { FirstPlatform(Lower(s), platformTable, "slug") } \ {0}

\* the keys of dct with a truthy value
TruthyKeys(dct) == { k \in DOMAIN dct : Truthy(dct[k]) }

\* the dict branch: id or pk as an int, else the first of name/slug/label
PksOfPid(pid, dct, platformTable) ==
    IF pid.t = "none" THEN {}
    ELSE IF pid.t \in {"int", "bool"} THEN { pid.i }
    ELSE IF pid.t = "str" /\ IsNumeral(pid.s) THEN { Numeral(pid.s) }
    ELSE IF FirstIn(<<"name", "slug", "label">>, TruthyKeys(dct)) = "None" THEN {}
    ELSE AddByNameOrSlug(Str(dct[FirstIn(<<"name", "slug", "label">>, TruthyKeys(dct))]),
                         platformTable)

PksFromDict(dct, platformTable) ==
    PksOfPid(IF "id" \in TruthyKeys(dct) THEN dct["id"] ELSE Get(dct, "pk"),
             dct, platformTable)

\* one JSON value that is not a list (a list item, or the value itself)
PksFromItem(val, platformTable) ==
    CASE val.t \in {"int", "bool"} -> { val.i }
      [] val.t = "str" ->
            IF IsNumeral(val.s) THEN { Numeral(val.s) }
            ELSE AddByNameOrSlug(val.s, platformTable)
      [] val.t = "dict" -> PksFromDict(val.d, platformTable)
      [] OTHER -> {}

\* the values to resolve: the items of a list, or the value itself
JsonItems(val) == IF val.t = "list" THEN SeqToSet(val.l) ELSE {val}

\* the pks the relation attribute f of the row contributes
RelPks(rel, f) ==
    IF f \in DOMAIN rel /\ rel[f].k \in {"fk", "m2m"}
    THEN SeqToSet(rel[f].pks) \ {0}
    ELSE {}

\* the pks the JSON blob contributes
BlobPks(blob, platformTable) ==
    UNION { PksFromItem(item, platformTable) :
              item \in UNION { JsonItems(blob[key]) :
                                 key \in SeqToSet(PLATFORM_JSON_KEYS) \cap DOMAIN blob } }

\* _platform_pks_from_row
PlatformPksFromRow(row, json_name, platformTable) ==
    UNION { RelPks(row.rel, f) : f \in SeqToSet(PLATFORM_FIELD_NAMES) }
    \cup BlobPks(Blob(row, json_name), platformTable)

(***************************************************************************)
(* Catalog model discovery.  A model class is                              *)
(*   [app_label, name, fields, class_attrs, objects_ok, table_ok, rows]:   *)
(* objects_ok is FALSE when Model.objects.all() raises, table_ok is FALSE  *)
(* when iterating the queryset raises.                                     *)
(***************************************************************************)
Contains(s, sub) ==
    \E k \in 0..(Len(s) - Len(sub)) : SubSeq(s, k + 1, k + Len(sub)) = sub

COT_APP == <<"n", "e", "t", "b", "o", "x", "_", "c", "u", "s", "t", "o", "m", "_", "o", "b", "j", "e", "c", "t", "s">>

COT_TYPE == <<"c", "u", "s", "t", "o", "m", "o", "b", "j", "e", "c", "t", "t", "y", "p", "e">>

SAMPLE_LIMIT == 200

Min(a, b) == IF a < b THEN a ELSE b

\* the counts of _model_sample_score after one more row
ScoreRow(acc, nm, tid, pks) ==
    [valid |-> acc.valid + (IF nm.t # "none" /\ ~InNoneEmpty(tid) THEN 1 ELSE 0),
     plat_rows |-> acc.plat_rows + (IF pks # {} THEN 1 ELSE 0),
     plats |-> acc.plats + Cardinality(pks)]

RECURSIVE ScoreRows(_, _, _, _)
ScoreRows(rows, json_name, platformTable, acc) ==
    IF rows = <<>> THEN acc
    ELSE ScoreRows(Tail(rows), json_name, platformTable,
             ScoreRow(acc,
                      NormStr(GetAttrOrJson(Head(rows), NAME_KEYS, json_name)),
                      GetAttrOrJson(Head(rows), ID_KEYS, json_name),
                      PlatformPksFromRow(Head(rows), json_name, platformTable)))

\* score: platform rows are king, then valid name+id rows
Score(st) == (st.plat_rows * 1000) + (st.plats * 10) + st.valid

\* _model_sample_score: [raised, score, json]
ModelSampleScore(Model, platformTable) ==
    IF ~Model.objects_ok
    THEN [raised |-> FALSE, score |-> -1, json |-> JsonContainerName(Model)]
    ELSE IF ~Model.table_ok
    THEN [raised |-> TRUE, score |-> -1, json |-> JsonContainerName(Model)]
    ELSE [raised |-> FALSE,
          score |-> Score(ScoreRows(SubSeq(Model.rows, 1, Min(SAMPLE_LIMIT, Len(Model.rows))),
                                    JsonContainerName(Model), platformTable,
                                    [valid |-> 0, plat_rows |-> 0, plats |-> 0])),
          json |-> JsonContainerName(Model)]

\* the models _pick_catalog_model scores
IsCandidate(Model) ==
    /\ Lower(Model.app_label) = COT_APP
    /\ ~Contains(Lower(Model.name), COT_TYPE)

\* best after scoring model k: a strictly better score replaces it
Better(acc, k, sc) ==
    IF sc.raised THEN [acc EXCEPT !.raised = TRUE]
    ELSE IF sc.score > acc.best_score
    THEN [raised |-> FALSE, best |-> k, best_score |-> sc.score, json |-> sc.json]
    ELSE acc

\* _pick_catalog_model: [raised, best, json]; best = 0 when none was picked
RECURSIVE PickFrom(_, _, _, _)
PickFrom(models, k, platformTable, acc) ==
    IF k > Len(models) \/ acc.raised THEN acc
    ELSE PickFrom(models, k + 1, platformTable,
             IF IsCandidate(models[k])
             THEN Better(acc, k, ModelSampleScore(models[k], platformTable))
             ELSE acc)

PickCatalogModel(models, platformTable) ==
    PickFrom(models, 1, platformTable,
        [raised |-> FALSE, best |-> 0, best_score |-> -1, json |-> "None"])

\* the maps of _load_catalog after one more row with a name
LoadRow(acc, nm, tid, iid0, pks) ==
    [name_to_id |-> Put(acc.name_to_id, Lower(nm.s), tid),
     name_to_iface |-> Put(acc.name_to_iface, Lower(nm.s),
                           IF InNoneEmpty(iid0) THEN iid0 ELSE TryInt(iid0)),
     has_iface_any |-> acc.has_iface_any \/ ~InNoneEmpty(iid0),
     by_platform |->
         [pk \in DOMAIN acc.by_platform \cup pks |->
             IF pk \in DOMAIN acc.by_platform THEN acc.by_platform[pk]
             ELSE [name |-> nm, id |-> tid,
                   iface |-> IF InNoneEmpty(iid0) THEN iid0 ELSE TryInt(iid0)]]]

\* a row without a name is skipped
LoadNamed(acc, nm, row, json_name, platformTable) ==
    IF nm.t = "none" THEN acc
    ELSE LoadRow(acc, nm,
                 TryInt(GetAttrOrJson(row, ID_KEYS, json_name)),
                 GetAttrOrJson(row, IFACE_KEYS, json_name),
                 PlatformPksFromRow(row, json_name, platformTable))

RECURSIVE LoadRows(_, _, _, _)
LoadRows(rows, json_name, platformTable, acc) ==
    IF rows = <<>> THEN acc
    ELSE LoadRows(Tail(rows), json_name, platformTable,
             LoadNamed(acc, NormStr(GetAttrOrJson(Head(rows), NAME_KEYS, json_name)),
                       Head(rows), json_name, platformTable))

\* what _load_catalog returns: the interface map is None without any interface id
Loaded(got) ==
    [raised |-> FALSE, name_to_id |-> got.name_to_id,
     has_iface |-> got.has_iface_any,
     name_to_iface |-> IF got.has_iface_any THEN got.name_to_iface ELSE NoD,
     by_platform |-> got.by_platform]

LoadPicked(models, pick, platformTable) ==
    IF pick.raised \/ pick.best = 0
    THEN [raised |-> TRUE, name_to_id |-> NoD, has_iface |-> FALSE,
          name_to_iface |-> NoD, by_platform |-> NoD]
    ELSE Loaded(LoadRows(models[pick.best].rows, pick.json, platformTable,
                         [name_to_id |-> NoD, name_to_iface |-> NoD,
                          has_iface_any |-> FALSE, by_platform |-> NoD]))

\* _load_catalog: [raised, name_to_id, has_iface, name_to_iface, by_platform];
\* has_iface = FALSE stands for the returned iface map being None
LoadCatalog(models, platformTable) ==
    LoadPicked(models, PickCatalogModel(models, platformTable), platformTable)

(***************************************************************************)
(* SLA, readiness, extras                                                  *)
(***************************************************************************)
ACTIVE == PyStr(<<"a", "c", "t", "i", "v", "e">>)

IN_PROGRESS == PyStr(<<"I", "n", "-", "p", "r", "o", "g", "r", "e", "s", "s">>)

MISSING_REQUIRED == PyStr(<<"M", "i", "s", "s", "i", "n", "g", " ", "R", "e", "q", "u", "i", "r", "e", "d", " ", "F", "i", "e", "l", "d", "s">>)

\* _ensure_sla, given cur and the role's code: [cf, added]
SlaFrom(cf, overwrite, cur, role, code) ==
    IF cur.t # "none" /\ ~overwrite THEN [cf |-> cf, added |-> FALSE]
    ELSE IF ~role.present THEN [cf |-> cf, added |-> FALSE]
    ELSE IF code.t = "none" THEN [cf |-> cf, added |-> FALSE]
    ELSE [cf |-> Put(cf, "sla_report_code", code), added |-> TRUE]

\* _ensure_sla copying the role's code as it is
EnsureSlaRaw(obj, cf, overwrite) ==
    SlaFrom(cf, overwrite, NormStr(Get(cf, "sla_report_code")), Role(obj),
            Get(Role(obj).custom_field_data, "sla_report_code"))

\* _ensure_sla: [cf, added]
EnsureSla(obj, cf, overwrite) ==
    SlaFrom(cf, overwrite, NormStr(Get(cf, "sla_report_code")), Role(obj),
            NormStr(Get(Role(obj).custom_field_data, "sla_report_code")))

\* the checklist without its last item
ReadyMissingNoSla(obj, cf_after) ==
    (IF ~PyEq(obj.status, ACTIVE) THEN {"status"} ELSE {})
    \cup (IF ~HasPrimaryV4(obj) THEN {"primary IPv4"} ELSE {})
    \cup (IF obj.platform_id = 0 THEN {"platform"} ELSE {})
    \cup (IF ~IsTrue(Get(cf_after, "mon_req")) THEN {"mon_req"} ELSE {})
    \cup (IF NormStr(Get(cf_after, "zabbix_template_name")).t = "none" THEN {"zabbix_template"} ELSE {})
    \cup (IF NormStr(Get(cf_after, "environment")).t = "none" THEN {"environment"} ELSE {})
    \cup (IF Desc(obj).t = "none" THEN {"description"} ELSE {})

\* the checklist of _ready_eval: the items that are missing
ReadyMissing(obj, cf_after) ==
    (IF ~PyEq(obj.status, ACTIVE) THEN {"status"} ELSE {})
    \cup (IF ~HasPrimaryV4(obj) THEN {"primary IPv4"} ELSE {})
    \cup (IF obj.platform_id = 0 THEN {"platform"} ELSE {})
    \cup (IF ~IsTrue(Get(cf_after, "mon_req")) THEN {"mon_req"} ELSE {})
    \cup (IF NormStr(Get(cf_after, "zabbix_template_name")).t = "none" THEN {"zabbix_template"} ELSE {})
    \cup (IF NormStr(Get(cf_after, "environment")).t = "none" THEN {"environment"} ELSE {})
    \cup (IF Desc(obj).t = "none" THEN {"description"} ELSE {})
    \cup (IF NormStr(Get(cf_after, "sla_report_code")).t = "none" THEN {"SLA code"} ELSE {})

\* the monitoring_status _ready_eval stores
ReadyStatus(meets, cf_after) ==
    IF meets THEN IN_PROGRESS
    ELSE IF Truthy(Get(cf_after, "monitoring_status")) THEN Get(cf_after, "monitoring_status")
    ELSE MISSING_REQUIRED

\* _ready_eval, given meets: [meets, cf]
ReadyWith(meets, cf_after) ==
    [meets |-> meets,
     cf |-> Put(Put(cf_after, "zabbix_status", PyBool(meets)),
                "monitoring_status", ReadyStatus(meets, cf_after))]

\* _ready_eval: [meets, cf]
ReadyEval(obj, cf_after) == ReadyWith(ReadyMissing(obj, cf_after) = {}, cf_after)

\* a dict item of the extras list: value or label or name or ""
ExtraOfDict(dct) ==
    IF Truthy(Get(dct, "value")) THEN Get(dct, "value")
    ELSE IF Truthy(Get(dct, "label")) THEN Get(dct, "label")
    ELSE IF Truthy(Get(dct, "name")) THEN Get(dct, "name")
    ELSE PyStr(<<>>)

\* .strip() on a list item raises when the dict holds a non-string
ExtraRaises(item) == item.t = "dict" /\ ExtraOfDict(item.d).t # "str"

ExtraText(item) ==
    IF item.t = "str" THEN Strip(item.s)
    ELSE IF item.t = "dict" THEN Strip(ExtraOfDict(item.d).s)
    ELSE Strip(Str(item))

\* the non-empty members of a sequence of strings, in order
NonEmpty(q) == SelectSeq(q, LAMBDA x : x # <<>>)

\* each piece stripped
StripAll(q) == [k \in 1..Len(q) |-> Strip(q[k])]

\* _parse_extras: [raised, out]
ParseExtras(v) ==
    CASE v.t = "none" -> [raised |-> FALSE, out |-> <<>>]
      [] v.t = "list" ->
            IF \E k \in 1..Len(v.l) : ExtraRaises(v.l[k])
            THEN [raised |-> TRUE, out |-> <<>>]
            ELSE [raised |-> FALSE,
                  out |-> NonEmpty([k \in 1..Len(v.l) |-> ExtraText(v.l[k])])]
      [] v.t = "str" -> [raised |-> FALSE, out |-> NonEmpty(StripAll(Split(v.s)))]
      [] OTHER -> [raised |-> FALSE, out |-> NonEmpty(<<Strip(Str(v))>>)]

(***************************************************************************)
(* The body of run's loop, for one object.  An object is                   *)
(*   [kind, status, primary_ip4_id, platform_id, site_id, vm_site,         *)
(*    vm_location_site, vm_cluster_site, name, description, comments,      *)
(*    device_role, role, custom_field_data]                                *)
(* with 0 for an id that is None; platform.pk is platform_id.              *)
(***************************************************************************)
\* the site of a VM: site.id or location.site.id or cluster.site.id
VmSiteId(obj) ==
    IF obj.vm_site # 0 THEN obj.vm_site
    ELSE IF obj.vm_location_site # 0 THEN obj.vm_location_site
    ELSE obj.vm_cluster_site

\* Step 1 gate
Gate1(obj, cf) == IsTrue(Get(cf, "mon_req")) /\ PyEq(obj.status, ACTIVE)

\* the site the Step 2 gate looks at
GateSiteId(obj) == IF obj.kind = "Device" THEN obj.site_id ELSE VmSiteId(obj)

\* Step 2 gate: missing_fields
MissingFields(obj, cf) ==
    (IF obj.platform_id = 0 THEN {"platform"} ELSE {})
    \cup (IF ~HasPrimaryV4(obj) THEN {"primary IPv4"} ELSE {})
    \cup (IF GateSiteId(obj) = 0 THEN {"site"} ELSE {})
    \cup (IF NormStr(Get(cf, "environment")).t = "none" THEN {"environment"} ELSE {})
    \cup (IF NormStr(obj.name).t = "none" THEN {"name"} ELSE {})
    \cup (IF Desc(obj).t = "none" THEN {"description"} ELSE {})

\* the name fallback: the current name when the catalog knows it
PrimaryByName(cur_name, cat) ==
    IF cur_name.t # "none" /\ Lower(cur_name.s) \in DOMAIN cat.name_to_id
    THEN [has |-> TRUE, name |-> cur_name,
          id |-> Get(cat.name_to_id, Lower(cur_name.s)),
          iface |-> IF cat.has_iface /\ DOMAIN cat.name_to_iface # {}
                    THEN Get(cat.name_to_iface, Lower(cur_name.s)) ELSE None]
    ELSE [has |-> FALSE, name |-> None, id |-> None, iface |-> None]

\* the primary with the current name tried before the platform
PrimaryNameFirst(obj, cf, cat) ==
    IF PrimaryByName(NormStr(Get(cf, "zabbix_template_name")), cat).has
    THEN PrimaryByName(NormStr(Get(cf, "zabbix_template_name")), cat)
    ELSE IF obj.platform_id \in DOMAIN cat.by_platform
    THEN [has |-> TRUE, name |-> cat.by_platform[obj.platform_id].name,
          id |-> cat.by_platform[obj.platform_id].id,
          iface |-> cat.by_platform[obj.platform_id].iface]
    ELSE [has |-> FALSE, name |-> None, id |-> None, iface |-> None]

\* Step 3.0: the primary template, [has, name, id, iface]
Primary(obj, cf, cat) ==
    IF obj.platform_id \in DOMAIN cat.by_platform
    THEN [has |-> TRUE, name |-> cat.by_platform[obj.platform_id].name,
          id |-> cat.by_platform[obj.platform_id].id,
          iface |-> cat.by_platform[obj.platform_id].iface]
    ELSE PrimaryByName(NormStr(Get(cf, "zabbix_template_name")), cat)

\* needs_write that always writes
NeedsWriteAlways(overwrite, old, new) == TRUE

\* needs_write
NeedsWrite(overwrite, old, new) ==
    overwrite \/ (InNoneEmptyZero(old) /\ ~InNoneEmptyZero(new))

\* the writes of the template sync, given which of them are needed
SyncWrites(cf, prim, wName, wInt) ==
    [cf |-> [k \in DOMAIN cf \cup (IF wName THEN {"zabbix_template_name"} ELSE {})
                             \cup (IF wInt THEN {"zabbix_template_int_id"} ELSE {}) |->
                IF wName /\ k = "zabbix_template_name" THEN prim.name
                ELSE IF wInt /\ k = "zabbix_template_int_id" THEN prim.iface
                ELSE cf[k]],
     changed_primary |-> wName \/ wInt]

SyncWith(cf, cat, overwrite, prim) ==
    SyncWrites(cf, prim,
        prim.has /\ NeedsWrite(overwrite, NormStr(Get(cf, "zabbix_template_name")), prim.name),
        prim.has /\ cat.has_iface
                 /\ NeedsWrite(overwrite, Get(cf, "zabbix_template_int_id"), prim.iface))

\* writing the primary name and interface id: [cf, changed_primary]
TemplateSync(obj, cf, cat, overwrite) ==
    SyncWith(cf, cat, overwrite, Primary(obj, cf, cat))

\* names = [primary] + extras, without case-insensitive repeats
RECURSIVE AddNames(_, _, _)
AddNames(extras, names, seen) ==
    IF extras = <<>> THEN names
    ELSE IF Lower(Strip(Head(extras))) # <<>> /\ Lower(Strip(Head(extras))) \notin seen
    THEN AddNames(Tail(extras), Append(names, Head(extras)),
                  seen \cup {Lower(Strip(Head(extras)))})
    ELSE AddNames(Tail(extras), names, seen)

\* names with every extra kept, repeats included
CsvNamesNoDedupe(prim, extras) ==
    IF Truthy(prim.name) THEN <<prim.name.s>> \o extras ELSE extras

CsvNames(prim, extras) ==
    IF Truthy(prim.name)
    THEN AddNames(extras, <<prim.name.s>>, {Lower(prim.name.s)})
    ELSE AddNames(extras, <<>>, {})

\* the catalog id of a name, None without one
IdOf(name, name_to_id) == Get(name_to_id, Lower(Strip(name)))

\* ids: the catalog id of each name that has one
CsvIds(names, name_to_id) ==
    LET found == SelectSeq(names, LAMBDA x : IdOf(x, name_to_id).t # "none")
    IN  [k \in 1..Len(found) |-> IdOf(found[k], name_to_id)]

\* ",".join(str(t) for t in ids)
JoinIds(ids) == Join([k \in 1..Len(ids) |-> Str(ids[k])])

\* new_csv
NewCsv(names, name_to_id) == JoinIds(CsvIds(names, name_to_id))

\* writing zabbix_template_id, given cur_csv: [cf, updated]
IdsWrite(cf, cur_csv, new_csv, overwrite) ==
    IF (overwrite \/ (cur_csv = <<>> /\ new_csv # <<>>)) /\ cur_csv # new_csv
    THEN [cf |-> Put(cf, "zabbix_template_id", PyStr(new_csv)), updated |-> TRUE]
    ELSE [cf |-> cf, updated |-> FALSE]

\* writing zabbix_template_id: [cf, updated]
IdsSync(cf, new_csv, overwrite) ==
    IdsWrite(cf, NormStr(Get(cf, "zabbix_template_id")).s, new_csv, overwrite)

\* the end of Step 3: what the iteration leaves
\* [cf, meets, changed_primary, ids_updated, added, saves]
Step3End(ts, ids, sla, re) ==
    [cf |-> re.cf, meets |-> re.meets,
     changed_primary |-> ts.changed_primary,
     ids_updated |-> ids.updated, added |-> sla.added,
     saves |-> (IF ts.changed_primary THEN 1 ELSE 0) + (IF ids.updated THEN 1 ELSE 0)
               + (IF sla.added THEN 1 ELSE 0) + 1]

Step3Ready(obj, ts, ids, sla) == Step3End(ts, ids, sla, ReadyEval(obj, sla.cf))

Step3Sla(obj, overwrite, ts, ids) ==
    Step3Ready(obj, ts, ids, EnsureSla(obj, ids.cf, overwrite))

Step3Ids(obj, cat, overwrite, prim, ts) ==
    Step3Sla(obj, overwrite, ts,
        IdsSync(ts.cf,
                NewCsv(CsvNames(prim, ParseExtras(Get(ts.cf, "zabbix_extra_templates")).out),
                       cat.name_to_id),
                overwrite))

Step3Sync(obj, cat, overwrite, prim) ==
    Step3Ids(obj, cat, overwrite, prim, SyncWith(Cf(obj), cat, overwrite, prim))

\* Step 3 for one object that passed both gates
Step3(obj, cat, overwrite) == Step3Sync(obj, cat, overwrite, Primary(obj, Cf(obj), cat))

\* a skip: the status is stored, then the readiness: [cf, meets, saves]
Skipped(re) == [cf |-> re.cf, meets |-> re.meets, saves |-> 2]

\* the Step 1 skip
Step1Skip(obj) ==
    Skipped(ReadyEval(obj, Put(Put(Cf(obj), "mon_req", PyBool(FALSE)),
                               "monitoring_status", MISSING_REQUIRED)))

\* the Step 2 skip
Step2Skip(obj) ==
    Skipped(ReadyEval(obj, Put(Cf(obj), "monitoring_status", MISSING_REQUIRED)))

(***************************************************************************)
(* The data a run can meet: Platform table, catalog model classes,         *)
(* inventory objects and script options, each from a small set.            *)
(***************************************************************************)
\* the number of objects in the inventory of one run
MaxObjs == 2

PlatformTable ==
    << [pk |-> 1, name |-> <<"L", "i", "n", "u", "x">>, slug |-> <<"l", "i", "n", "u", "x">>],
       [pk |-> 2, name |-> <<"W", "i", "n">>, slug |-> <<"w", "i", "n">>] >>

Row(a, rel) == [a |-> a, rel |-> rel]

\* a column-based entries table: names, ids and interface ids as columns,
\* platforms as a foreign key and a many-to-many manager
ColumnRows ==
    << Row([id |-> PyInt(1), name |-> PyStr(<<"T", "a">>), template_id |-> PyInt(11),
            template_interface_id |-> PyInt(1)],
           [platform |-> [k |-> "fk", pks |-> <<1>>]]),
       Row([id |-> PyInt(2), name |-> PyStr(<<" ", "T", "b", " ">>), template_id |-> PyStr(<<"2", "2">>),
            template_interface_id |-> None],
           [platform |-> [k |-> "null", pks |-> <<>>],
            platforms |-> [k |-> "m2m", pks |-> <<1, 2>>]]),
       Row([id |-> PyInt(3), name |-> PyStr(<<"T", "A">>), template_id |-> PyInt(13),
            template_interface_id |-> PyStr(<<"i", "f">>)],
           [platforms |-> [k |-> "err", pks |-> <<>>]]),
       Row([name |-> PyStr(<<"T", "c">>), template_id |-> None], NoD),
       Row([id |-> PyInt(5), name |-> PyStr(<<" ">>)], NoD) >>

\* a JSON-based entries table: everything in the "data" blob, no interface ids
JsonRows ==
    << Row([data |-> PyDict([template_name |-> PyStr(<<"T", "b">>), template_id |-> PyStr(<<"x", "7">>),
                             platforms |-> PyList(<<PyStr(<<"2">>), PyStr(<<"L", "I", "N", "U", "X">>)>>)])], NoD),
       Row([data |-> PyDict([template |-> PyStr(<<"T", "a">>), zabbix_template_id |-> PyInt(4),
                             platform |-> PyDict([id |-> PyStr(<<"w", "i", "n">>), slug |-> PyStr(<<"W", "i", "n">>)])])], NoD),
       Row([data |-> PyDict([name |-> PyStr(<<"T", "d">>), id |-> PyInt(0),
                             platform_id |-> PyInt(1)])], NoD),
       Row([data |-> None, name |-> PyStr(<<"T", "e">>)], NoD) >>

ModelClass(app, name, fields, attrs, ook, tok, rows) ==
    [app_label |-> app, name |-> name, fields |-> fields, class_attrs |-> attrs,
     objects_ok |-> ook, table_ok |-> tok, rows |-> rows]

TypeModel ==
    ModelClass(COT_APP, <<"C", "u", "s", "t", "o", "m", "O", "b", "j", "e", "c", "t", "T", "y", "p", "e">>, {"id", "name", "data"}, {}, TRUE, TRUE,
               <<Row([id |-> PyInt(1), name |-> PyStr(<<"T", "z">>)], NoD)>>)

OtherAppModel ==
    ModelClass(<<"d", "c", "i", "m">>, <<"S", "i", "t", "e">>, {"id", "name"}, {}, TRUE, TRUE,
               <<Row([id |-> PyInt(1), name |-> PyStr(<<"T", "z">>)], NoD)>>)

ColumnModel ==
    ModelClass(<<"N", "e", "t", "b", "o", "x", "_", "C", "u", "s", "t", "o", "m", "_", "O", "b", "j", "e", "c", "t", "s">>, <<"T", "a", "b", "l", "e", "1", "M", "o", "d", "e", "l">>,
               {"id", "name", "template_id", "template_interface_id", "platform"},
               {"platforms"}, TRUE, TRUE, ColumnRows)

JsonModel ==
    ModelClass(COT_APP, <<"T", "a", "b", "l", "e", "2", "M", "o", "d", "e", "l">>, {"id", "data"}, {}, TRUE, TRUE, JsonRows)

EmptyModel ==
    ModelClass(COT_APP, <<"T", "a", "b", "l", "e", "3", "M", "o", "d", "e", "l">>, {"id"}, {"values"}, TRUE, TRUE, <<>>)

NoManagerModel ==
    ModelClass(COT_APP, <<"T", "a", "b", "l", "e", "4", "M", "o", "d", "e", "l">>, {"id", "data"}, {}, FALSE, TRUE, JsonRows)

NoTableModel ==
    ModelClass(COT_APP, <<"T", "a", "b", "l", "e", "5", "M", "o", "d", "e", "l">>, {"id", "data"}, {}, TRUE, FALSE, JsonRows)

\* the installations: each is the model classes in apps.get_models() order
ModelSets ==
    << <<OtherAppModel, TypeModel, EmptyModel, ColumnModel>>,
       <<TypeModel, JsonModel, EmptyModel>>,
       <<OtherAppModel, TypeModel>>,
       <<TypeModel, NoManagerModel>>,
       <<EmptyModel, NoTableModel, ColumnModel>> >>

\* a key that a dict does not have
Absent == [t |-> "absent", i |-> 0, s |-> <<>>, l |-> <<>>, d |-> NoD]

\* the dict holding the keys of r that are not Absent
MkDict(r) == [k \in { x \in DOMAIN r : r[x].t # "absent" } |-> r[k]]

NoRole == [present |-> FALSE, custom_field_data |-> NoD]

RoleWith(code) == [present |-> TRUE, custom_field_data |-> MkDict([sla_report_code |-> code])]

\* the i-th (from 0) combination's digit: q's member at the given stride
Pick(q, i, stride) == q[((i \div stride) % Len(q)) + 1]

\* (device_role, role) pairs
RolePairs ==
    << <<NoRole, NoRole>>,
       <<NoRole, RoleWith(PyStr(<<" ", "s", "1", " ">>))>>,
       <<NoRole, RoleWith(Absent)>>,
       <<RoleWith(PyStr(<<" ">>)), RoleWith(PyStr(<<"s", "2">>))>>,
       <<RoleWith(PyInt(7)), NoRole>> >>

MonReqValues == << PyBool(TRUE), PyBool(FALSE), PyStr(<<" ", "Y", "e", "s">>), PyStr(<<"n", "o">>), PyInt(2), PyInt(1), Absent >>

TemplateNameValues == << Absent, PyStr(<<" ">>), PyStr(<<"t", "a">>), PyStr(<<" ", "T", "b", " ">>), PyStr(<<"z", "z">>) >>

TemplateIntValues == << Absent, PyInt(0), PyInt(7), PyStr(<<" ">>) >>

TemplateIdValues == << Absent, PyStr(<<" ">>), PyStr(<<"9">>), PyInt(22) >>

ExtraValues ==
    << Absent,
       PyList(<<PyStr(<<"T", "b">>), PyStr(<<" ", "t", "b">>), PyStr(<<"z", "z">>), PyStr(<<" ", "T", "A", " ">>), PyStr(<<"t", "c">>)>>),
       PyStr(<<"t", "b", ",", " ", ",", "T", "a", ",", " ", "T", "B", ",", "T", "c", ",", "t", "d">>),
       PyList(<<PyDict([label |-> PyStr(<<"T", "a">>), name |-> PyStr(<<"T", "b">>)]), PyInt(9), PyStr(<<" ">>), PyStr(<<"T", "d">>)>>) >>

\* an extras list whose dict item holds a number: .strip() raises
BadExtras == PyList(<<PyStr(<<"T", "b">>), PyDict([value |-> PyInt(3)])>>)

SlaValues == << Absent, PyStr(<<" ">>), PyStr(<<"s", "0">>) >>

StatusValues == << Absent, IN_PROGRESS, PyStr(<<"P", "a", "u", "s", "e", "d">>) >>

MkCf(mon, env, tn, ti, tid, ex, sla, ms) ==
    MkDict([mon_req |-> mon, environment |-> env, zabbix_template_name |-> tn,
            zabbix_template_int_id |-> ti, zabbix_template_id |-> tid,
            zabbix_extra_templates |-> ex, sla_report_code |-> sla,
            monitoring_status |-> ms])

MkObj(kind, plat, roles, cfd) ==
    [kind |-> kind, status |-> ACTIVE, primary_ip4_id |-> 5, platform_id |-> plat,
     site_id |-> IF kind = "Device" THEN 1 ELSE 0,
     vm_site |-> 0, vm_location_site |-> 0,
     vm_cluster_site |-> IF kind = "VM" THEN 1 ELSE 0,
     name |-> PyStr(<<"n", "1">>), description |-> PyStr(<<"d">>), comments |-> None,
     device_role |-> roles[1], role |-> roles[2], custom_field_data |-> cfd]

\* the ways an object can fall short of (or still pass) the gates
Defects ==
    << "none", "status", "no platform", "no ip", "no site", "other site",
       "no environment", "blank environment", "no name", "no description",
       "comments only" >>

WithDefect(o, d) ==
    CASE d = "status" -> [o EXCEPT !.status = PyStr(<<"p", "l", "a", "n", "n", "e", "d">>)]
      [] d = "no platform" -> [o EXCEPT !.platform_id = 0]
      [] d = "no ip" -> [o EXCEPT !.primary_ip4_id = 0]
      [] d = "no site" -> [o EXCEPT !.site_id = 0, !.vm_cluster_site = 0]
      [] d = "other site" ->
            IF o.kind = "Device" THEN [o EXCEPT !.site_id = 2]
            ELSE [o EXCEPT !.vm_location_site = 2]
      [] d = "no environment" ->
            [o EXCEPT !.custom_field_data =
                [k \in DOMAIN o.custom_field_data \ {"environment"} |-> o.custom_field_data[k]]]
      [] d = "blank environment" ->
            [o EXCEPT !.custom_field_data = Put(o.custom_field_data, "environment", PyStr(<<" ">>))]
      [] d = "no name" -> [o EXCEPT !.name = None]
      [] d = "no description" -> [o EXCEPT !.description = PyStr(<<" ">>)]
      [] d = "comments only" -> [o EXCEPT !.description = None, !.comments = PyStr(<<"c">>)]
      [] OTHER -> o

Kinds == <<"Device", "VM">>

Presets == << <<PyStr(<<"T", "a">>), PyStr(<<"s", "0">>)>>, <<Absent, Absent>> >>

\* objects that differ in what the two gates and the checklist look at
GateObj(j) ==
       (LET i == j - 1
            pre == Pick(Presets, i, 22)
        IN  WithDefect(MkObj(Pick(Kinds, i, 1), 1, <<NoRole, NoRole>>,
                             MkCf(PyBool(TRUE), PyStr(<<"p", "r", "o", "d">>), pre[1], Absent, Absent, Absent,
                                  pre[2], Pick(StatusValues, i, 44))),
                       Pick(Defects, i, 2)))

\* objects that differ in mon_req
MonReqObj(j) ==
       (LET i == j - 1
        IN  MkObj(Pick(Kinds, i, 1), 1, <<NoRole, NoRole>>,
                  MkCf(Pick(MonReqValues, i, 2), PyStr(<<"p", "r", "o", "d">>), PyStr(<<"T", "a">>), Absent, Absent, Absent,
                       PyStr(<<"s", "0">>), Pick(StatusValues, i, 14))))

\* objects that pass both gates and differ in the template fields
TemplateObj(j) ==
       (LET i == j - 1
        IN  MkObj("Device", (i % 3) + 1, <<NoRole, RoleWith(PyStr(<<" ", "s", "1", " ">>))>>,
                  MkCf(PyInt(1), PyStr(<<"p", "r", "o", "d">>), Pick(TemplateNameValues, i, 3), Absent,
                       Pick(TemplateIdValues, i, 15), Pick(ExtraValues, i, 60),
                       Absent, Absent)))

\* objects that pass both gates and differ in the interface id
InterfaceObj(j) ==
       (LET i == j - 1
        IN  MkObj("VM", (i % 3) + 1, <<NoRole, NoRole>>,
                  MkCf(PyStr(<<"o", "n">>), PyStr(<<"p", "r", "o", "d">>), Pick(TemplateNameValues, i, 3),
                       Pick(TemplateIntValues, i, 15), Absent, PyStr(<<"T", "b">>), PyStr(<<"s", "0">>), Absent)))

\* objects that pass both gates and differ in the SLA fields
SlaObj(j) ==
       (LET i == j - 1
        IN  MkObj(Pick(Kinds, i, 1), 1, Pick(RolePairs, i, 2),
                  MkCf(PyBool(TRUE), PyStr(<<"p", "r", "o", "d">>), Absent, Absent, Absent, Absent,
                       Pick(SlaValues, i, 10), Pick(StatusValues, i, 30))))

\* objects whose extras make _parse_extras raise
RaisingObj(j) ==
       (MkObj("Device", (2 * j) - 1, <<NoRole, NoRole>>,
              MkCf(PyBool(TRUE), PyStr(<<"p", "r", "o", "d">>), Absent, Absent, Absent, BadExtras, Absent, Absent)))

NumObjs == 88 + 28 + 240 + 60 + 90 + 2

\* the objects, numbered 1..NumObjs
ObjAt(j) ==
    IF j <= 88 THEN GateObj(j)
    ELSE IF j <= 116 THEN MonReqObj(j - 88)
    ELSE IF j <= 356 THEN TemplateObj(j - 116)
    ELSE IF j <= 416 THEN InterfaceObj(j - 356)
    ELSE IF j <= 506 THEN SlaObj(j - 416)
    ELSE RaisingObj(j - 506)

\* an inventory: the MaxObjs objects numbered from p on, in database order
Inventory(p) == [k \in 1..MaxObjs |-> ObjAt(((p + k - 2) % NumObjs) + 1)]

\* the script's form: data, with limit_site 0 for no site
Forms ==
    { [dry_run |-> dr, overwrite_all_mapped_fields |-> ow,
       include_devices |-> sc[1], include_vms |-> sc[2], limit_site |-> sc[3]] :
        dr \in BOOLEAN, ow \in BOOLEAN,
        sc \in { <<TRUE, TRUE, 0>>, <<TRUE, FALSE, 1>>, <<FALSE, TRUE, 1>>, <<FALSE, FALSE, 0>> } }

\* the zabbix_status custom field: its type, or "absent"
CustomFieldTypes == { "absent", "boolean", "text" }

(***************************************************************************)
(* One run of the script                                                   *)
(***************************************************************************)
VARIABLES
    data,            \* the form values handed to run
    commit_arg,      \* run's commit argument
    field_type,      \* type of the custom field zabbix_status, or "absent"
    models,          \* the installation: an index into ModelSets
    pc,              \* "start", "load", "txn", "done", "failed", "crashed"
    commit,          \* the local commit of line 348
    cat,             \* name_to_id, name_to_iface, by_platform once loaded
    streams,         \* the streams still to walk: [kind, items], current first
    n,               \* objects the streams have yielded so far
    obj,             \* the object yielded last, as the database now holds it
    orig,            \* its custom_field_data when the run began
    cf,              \* the script's working copy cf at the end of its iteration
    last,            \* what the iteration did: path and what it wrote
    saves,           \* obj.save() calls issued so far
    db_changed,      \* some stored custom_field_data differs from before the run
    rollback,        \* transaction.set_rollback(True) was called
    failures         \* log_failure calls

vars == <<data, commit_arg, field_type, models, pc, commit, cat, streams, n,
          obj, orig, cf, last, saves, db_changed, rollback, failures>>

NoCat == [raised |-> FALSE, name_to_id |-> NoD, has_iface |-> FALSE,
          name_to_iface |-> NoD, by_platform |-> NoD]

NoObj == MkObj("Device", 0, <<NoRole, NoRole>>, NoD)

NoLast == [path |-> "none", meets |-> FALSE, changed_primary |-> FALSE,
           ids_updated |-> FALSE, added |-> FALSE]

Init ==
    /\ data \in Forms
    /\ commit_arg \in BOOLEAN
    /\ field_type \in CustomFieldTypes
    /\ models \in 1..Len(ModelSets)
    /\ pc = "start"
    /\ commit = FALSE
    /\ cat = NoCat
    /\ streams = <<>>
    /\ n = 0
    /\ obj = NoObj
    /\ orig = NoD
    /\ cf = NoD
    /\ last = NoLast
    /\ saves = 0
    /\ db_changed = FALSE
    /\ rollback = FALSE
    /\ failures = 0

\* line 348 without the dry_run test
CommitIgnoringDryRun(c, d) == c

\* line 348
Commit(c, d) == c /\ ~d.dry_run

\* lines 348-358: options, then the zabbix_status custom field must be boolean
Start ==
    /\ pc = "start"
    /\ commit' = Commit(commit_arg, data)
    /\ IF field_type = "boolean"
       THEN pc' = "load" /\ UNCHANGED failures
       ELSE pc' = "failed" /\ failures' = failures + 1
    /\ UNCHANGED <<data, commit_arg, field_type, models, cat, streams, n, obj, orig,
                   cf, last, saves, db_changed, rollback>>

\* _devices: every Device, of the site when one is given
Devices(inv, site) ==
    SelectSeq(inv, LAMBDA o : o.kind = "Device" /\ (site # 0 => o.site_id = site))

\* _vms: every VirtualMachine
Vms(inv) == SelectSeq(inv, LAMBDA o : o.kind = "VM")

\* lines 379-381
Streams(d, inv) ==
    (IF d.include_devices
     THEN <<[kind |-> "Device", items |-> Devices(inv, d.limit_site)]>> ELSE <<>>)
    \o (IF d.include_vms THEN <<[kind |-> "VM", items |-> Vms(inv)]>> ELSE <<>>)

\* the run going on whatever the catalog load did
CatalogAlwaysOk(r) == TRUE

\* the run goes on to the transaction only with a loaded catalog
CatalogOk(r) == ~r.raised

\* lines 360-381: load the catalog, then open the transaction and the streams
\* over whatever inventory the database holds
Load ==
    /\ pc = "load"
    /\ LET r == LoadCatalog(ModelSets[models], PlatformTable)
       IN  IF CatalogOk(r)
           THEN /\ cat' = r
                /\ \E p \in 1..NumObjs : streams' = Streams(data, Inventory(p))
                /\ pc' = "txn"
                /\ UNCHANGED failures
           ELSE /\ pc' = "failed"
                /\ failures' = failures + 1
                /\ UNCHANGED <<cat, streams>>
    /\ UNCHANGED <<data, commit_arg, field_type, models, commit, n, obj, orig,
                   cf, last, saves, db_changed, rollback>>

\* lines 386-391: the soft site filter drops a VM of another site
VmFiltered(o) ==
    o.kind = "VM" /\ data.limit_site # 0 /\ VmSiteId(o) # data.limit_site

\* the loop has an object to work on
HasNext == pc = "txn" /\ streams # <<>> /\ Head(streams).items # <<>>

NextObj == Head(Head(streams).items)

\* the stream without the object just taken
Advance == <<[Head(streams) EXCEPT !.items = Tail(Head(streams).items)]>> \o Tail(streams)

\* what an iteration leaves behind: the object as stored, the working copy,
\* and the save() calls, all of which need commit
Iterated(o, path, res) ==
    /\ n' = n + 1
    /\ streams' = Advance
    /\ orig' = o.custom_field_data
    /\ obj' = IF commit THEN [o EXCEPT !.custom_field_data = res.cf] ELSE o
    /\ cf' = res.cf
    /\ last' = [path |-> path, meets |-> res.meets,
                changed_primary |-> res.changed_primary,
                ids_updated |-> res.ids_updated, added |-> res.added]
    /\ saves' = saves + (IF commit THEN res.saves ELSE 0)
    /\ db_changed' = (db_changed \/ obj'.custom_field_data # orig')
    /\ UNCHANGED <<data, commit_arg, field_type, models, pc, commit, cat,
                   rollback, failures>>

Plain(res) ==
    [cf |-> res.cf, meets |-> res.meets, saves |-> res.saves,
     changed_primary |-> FALSE, ids_updated |-> FALSE, added |-> FALSE]

\* lines 386-391: continue before anything is read
SkipVm ==
    /\ HasNext
    /\ VmFiltered(NextObj)
    /\ Iterated(NextObj, "filtered",
           [cf |-> NextObj.custom_field_data, meets |-> FALSE, saves |-> 0,
            changed_primary |-> FALSE, ids_updated |-> FALSE, added |-> FALSE])

\* lines 396-408
Step1 ==
    /\ HasNext
    /\ ~VmFiltered(NextObj)
    /\ ~Gate1(NextObj, Cf(NextObj))
    /\ Iterated(NextObj, "step1", Plain(Step1Skip(NextObj)))

\* lines 410-432
Step2 ==
    /\ HasNext
    /\ ~VmFiltered(NextObj)
    /\ Gate1(NextObj, Cf(NextObj))
    /\ MissingFields(NextObj, Cf(NextObj)) # {}
    /\ Iterated(NextObj, "step2", Plain(Step2Skip(NextObj)))

PassesGates(o) ==
    /\ ~VmFiltered(o)
    /\ Gate1(o, Cf(o))
    /\ MissingFields(o, Cf(o)) = {}

\* _parse_extras raises on the cf the template sync left
ExtrasRaise(o) ==
    ParseExtras(Get(TemplateSync(o, Cf(o), cat, data.overwrite_all_mapped_fields).cf,
                    "zabbix_extra_templates")).raised

\* lines 434-509
Step3Full ==
    /\ HasNext
    /\ PassesGates(NextObj)
    /\ ~ExtrasRaise(NextObj)
    /\ Iterated(NextObj, "step3", Step3(NextObj, cat, data.overwrite_all_mapped_fields))

\* what the iteration that raises leaves behind
Raised(o, ts) ==
    /\ n' = n + 1
    /\ orig' = o.custom_field_data
    /\ obj' = o
    /\ cf' = ts.cf
    /\ last' = [NoLast EXCEPT !.path = "raised", !.changed_primary = ts.changed_primary]
    /\ saves' = saves + (IF commit /\ ts.changed_primary THEN 1 ELSE 0)

\* lines 434-475, then the exception leaves run through transaction.atomic,
\* which undoes every save of the run
Step3Raise ==
    /\ HasNext
    /\ PassesGates(NextObj)
    /\ ExtrasRaise(NextObj)
    /\ Raised(NextObj, TemplateSync(NextObj, Cf(NextObj), cat, data.overwrite_all_mapped_fields))
    /\ db_changed' = FALSE
    /\ pc' = "crashed"
    /\ UNCHANGED <<data, commit_arg, field_type, models, commit, cat, streams,
                   rollback, failures>>

\* a stream is exhausted: on to the next one
StreamEnd ==
    /\ pc = "txn"
    /\ streams # <<>>
    /\ Head(streams).items = <<>>
    /\ streams' = Tail(streams)
    /\ UNCHANGED <<data, commit_arg, field_type, models, pc, commit, cat, n, obj,
                   orig, cf, last, saves, db_changed, rollback, failures>>

\* lines 511-519: the dry run marks the transaction for rollback
Finish ==
    /\ pc = "txn"
    /\ streams = <<>>
    /\ pc' = "done"
    /\ rollback' = ~commit
    /\ db_changed' = (db_changed /\ commit)
    /\ UNCHANGED <<data, commit_arg, field_type, models, commit, cat, streams, n,
                   obj, orig, cf, last, saves, failures>>

Next ==
    \/ Start
    \/ Load
    \/ SkipVm
    \/ Step1
    \/ Step2
    \/ Step3Full
    \/ Step3Raise
    \/ StreamEnd
    \/ Finish

Spec == Init /\ [][Next]_vars

(***************************************************************************)
(* Properties                                                              *)
(***************************************************************************)
\* an iteration ran to its end on the object yielded last
Processed == last.path \in {"step1", "step2", "step3"}

\* not None and not only whitespace
NonBlank(v) == v.t # "none" /\ \E k \in 1..Len(Str(v)) : ~IsSpace(Str(v)[k])

Overwrite == data.overwrite_all_mapped_fields

\* the key is in both dicts with the same value, or in neither
SameAt(a, b, k) == (k \in DOMAIN a <=> k \in DOMAIN b) /\ (k \in DOMAIN a => a[k] = b[k])

\* C1: in a run with dry_run true or commit false no save is issued, no stored
\* custom_field_data differs from what it was before the run, and a run that
\* reaches the end of the transaction block has marked it for rollback;
\* dry_run = true wins over commit = true.
DryRunPersistsNothing ==
    (data.dry_run \/ ~commit_arg) =>
        /\ saves = 0
        /\ obj.custom_field_data = orig
        /\ ~db_changed
        /\ pc = "done" => rollback

\* a dry run with commit = true filled fields in its working copy and ended
DryRunWitness ==
    /\ pc = "done" /\ data.dry_run /\ commit_arg /\ rollback
    /\ last.path = "step3" /\ last.changed_primary /\ last.added
    /\ cf # orig /\ saves = 0

\* the eight checklist items, on the object and a custom field dict
Checklist(o, c) ==
    /\ o.status = ACTIVE
    /\ o.primary_ip4_id # 0
    /\ o.platform_id # 0
    /\ Truthy(Get(c, "mon_req"))
    /\ NonBlank(Get(c, "zabbix_template_name"))
    /\ NonBlank(Get(c, "environment"))
    /\ (NonBlank(o.description) \/ NonBlank(o.comments))
    /\ NonBlank(Get(c, "sla_report_code"))

\* C2: on every path (Step 1 skip, Step 2 skip, full Step 3) the zabbix_status
\* written is True exactly when all eight checklist items hold on the object
\* and on its custom field data as they stand at the end of processing, and
\* False otherwise; with commit that is also the stored value.
ZabbixStatusIsChecklist ==
    Processed =>
        /\ Get(cf, "zabbix_status") = PyBool(Checklist(obj, cf))
        /\ commit => Get(obj.custom_field_data, "zabbix_status") = PyBool(Checklist(obj, cf))

\* a Step 3 object that became ready through the fields the run filled in
ReadyWitness ==
    /\ last.path = "step3" /\ commit
    /\ Get(cf, "zabbix_status") = PyBool(TRUE)
    /\ ~NonBlank(Get(orig, "sla_report_code"))
    /\ ~NonBlank(Get(orig, "zabbix_template_name"))

\* a value the default run must keep: non-blank, and for the interface id not 0
Kept(k, v) == NonBlank(v) /\ ~(k = "zabbix_template_int_id" /\ v.t = "int" /\ v.i = 0)

MappedFields ==
    {"zabbix_template_name", "zabbix_template_int_id", "zabbix_template_id",
     "sla_report_code"}

\* C3: without overwrite_all_mapped_fields a run only fills blanks: each of
\* zabbix_template_name, zabbix_template_int_id, zabbix_template_id and
\* sla_report_code that held a non-blank value before the run (for the
\* interface id also not 0) holds the same value after it, in the working
\* copy and in the database.
FillsBlanksOnly ==
    (n > 0 /\ ~Overwrite) =>
        \A k \in MappedFields :
            (k \in DOMAIN orig /\ Kept(k, orig[k])) =>
                /\ Get(cf, k) = orig[k]
                /\ Get(obj.custom_field_data, k) = orig[k]

\* a committed Step 3 that kept a name and an id although the platform's
\* template is another one, and still filled the blank SLA code
FillsBlanksWitness ==
    /\ last.path = "step3" /\ commit /\ ~Overwrite
    /\ obj.platform_id \in DOMAIN cat.by_platform
    /\ NonBlank(Get(orig, "zabbix_template_name"))
    /\ Lower(Strip(orig["zabbix_template_name"].s))
           # Lower(cat.by_platform[obj.platform_id].name.s)
    /\ NonBlank(Get(orig, "zabbix_template_id"))
    /\ Get(cf, "zabbix_template_name") = orig["zabbix_template_name"]
    /\ last.added

\* the record's role: device_role when there is one, else role
RoleOf(o) == IF o.device_role.present THEN o.device_role ELSE o.role

\* C4: for an object that passed both gates and whose sla_report_code was blank
\* (or any such object under overwrite): when its role has a non-blank
\* sla_report_code, the object's sla_report_code is that value stripped of
\* surrounding whitespace; when it has no role or the role has no code, the
\* object's sla_report_code is as it was.
SlaCopiedFromRole ==
    (last.path = "step3" /\ (Overwrite \/ ~NonBlank(Get(orig, "sla_report_code")))) =>
        IF RoleOf(obj).present /\ NonBlank(Get(RoleOf(obj).custom_field_data, "sla_report_code"))
        THEN Get(cf, "sla_report_code")
                 = PyStr(Strip(Str(RoleOf(obj).custom_field_data["sla_report_code"])))
        ELSE SameAt(cf, orig, "sla_report_code")

\* an overwrite that replaced a code by the padded role code, stripped
SlaWitness ==
    /\ last.path = "step3" /\ Overwrite /\ last.added
    /\ NonBlank(Get(orig, "sla_report_code"))
    /\ Get(cf, "sla_report_code") # orig["sla_report_code"]
    /\ Get(RoleOf(obj).custom_field_data, "sla_report_code") # Get(cf, "sla_report_code")

\* the current template name before the run, stripped; <<>> when blank
CurName == IF NonBlank(Get(orig, "zabbix_template_name"))
           THEN Strip(Str(orig["zabbix_template_name"])) ELSE <<>>

ByPlatform == obj.platform_id \in DOMAIN cat.by_platform

ByName == ~ByPlatform /\ CurName # <<>> /\ Lower(CurName) \in DOMAIN cat.name_to_id

\* C5: for an object that passed both gates: with an entry for its platform in
\* by_platform the primary template is that entry whatever the current name;
\* only without one, and with a current name that is a catalog name ignoring
\* case, the current name is the primary; with neither, no template name or
\* interface id is written.  When a primary exists and overwrite is on or the
\* name was blank, zabbix_template_name is the primary's name afterwards, and
\* an interface id that was written is the primary's.
PrimaryByPlatformThenName ==
    last.path = "step3" =>
        /\ (ByPlatform /\ (Overwrite \/ CurName = <<>>)) =>
               Get(cf, "zabbix_template_name") = cat.by_platform[obj.platform_id].name
        /\ (ByPlatform /\ ~SameAt(cf, orig, "zabbix_template_int_id")) =>
               Get(cf, "zabbix_template_int_id") = cat.by_platform[obj.platform_id].iface
        /\ (ByName /\ Overwrite) => Get(cf, "zabbix_template_name") = PyStr(CurName)
        /\ (ByName /\ ~SameAt(cf, orig, "zabbix_template_int_id")) =>
               Get(cf, "zabbix_template_int_id") = Get(cat.name_to_iface, Lower(CurName))
        /\ (~ByPlatform /\ ~ByName) =>
               /\ SameAt(cf, orig, "zabbix_template_name")
               /\ SameAt(cf, orig, "zabbix_template_int_id")
               /\ ~last.changed_primary

\* an overwrite where the current name is one catalog template and the
\* platform's entry another: the platform won
PrimaryWitness ==
    /\ last.path = "step3" /\ Overwrite /\ ByPlatform
    /\ CurName # <<>> /\ Lower(CurName) \in DOMAIN cat.name_to_id
    /\ Lower(CurName) # Lower(cat.by_platform[obj.platform_id].name.s)
    /\ Get(cf, "zabbix_template_name") = cat.by_platform[obj.platform_id].name

\* the names the CSV is built from: the primary, then the listed extras
ListedNames ==
    (IF ByPlatform THEN <<cat.by_platform[obj.platform_id].name.s>>
     ELSE IF ByName THEN <<CurName>> ELSE <<>>)
    \o ParseExtras(Get(orig, "zabbix_extra_templates")).out

NameKey(x) == Lower(Strip(x))

\* the listed names as the catalog keys them
Keys(names) == [k \in 1..Len(names) |-> NameKey(names[k])]

\* listed name k counts: no earlier name equals it ignoring case, and the
\* catalog has an id for it
Counts(keys, k) ==
    /\ \A j \in 1..(k - 1) : keys[j] # keys[k]
    /\ keys[k] \in DOMAIN cat.name_to_id
    /\ cat.name_to_id[keys[k]].t # "none"

\* the places of the names that count, in order
Counting(keys) == SelectSeq([k \in 1..Len(keys) |-> k], LAMBDA k : Counts(keys, k))

\* the ids of the names that count, in order, as text
IdsOf(keys, counting) ==
    [i \in 1..Len(counting) |-> Str(cat.name_to_id[keys[counting[i]]])]

ExpectedAt(keys) == IdsOf(keys, Counting(keys))

ExpectedIds == ExpectedAt(Keys(ListedNames))

InProgressIffReady ==
    Processed =>
        (Get(cf, "monitoring_status") = IN_PROGRESS <=> Get(cf, "zabbix_status") = PyBool(TRUE))

\* an entries model can be located: some model of the custom objects app,
\* not a type model, whose manager answers
Located(ms) == \E k \in 1..Len(ms) : ms[k].objects_ok /\ IsCandidate(ms[k])

\* reading the rows of some such model raises
Unreadable(ms) ==
    \E k \in 1..Len(ms) : ~ms[k].table_ok /\ ms[k].objects_ok /\ IsCandidate(ms[k])

\* C8: without a boolean custom field zabbix_status, or when no catalog
\* entries model can be located (loading the catalog raises), the run logs a
\* failure and returns before any Device or VirtualMachine is iterated, so
\* nothing stored changes; and the catalog maps are built before the first
\* object is processed.
PreconditionsAbort ==
    /\ (field_type # "boolean" \/ ~Located(ModelSets[models]) \/ Unreadable(ModelSets[models])) =>
           /\ pc \in {"start", "load", "failed"}
           /\ n = 0 /\ saves = 0 /\ streams = <<>> /\ ~db_changed
           /\ cat = NoCat
           /\ pc = "failed" => failures = 1
    /\ (n > 0 \/ streams # <<>>) =>
           /\ pc \in {"txn", "done", "crashed"}
           /\ failures = 0
           /\ ~cat.raised /\ DOMAIN cat.name_to_id # {} /\ DOMAIN cat.by_platform # {}

\* a run with the custom field in place that failed on the catalog
AbortWitness ==
    /\ pc = "failed" /\ field_type = "boolean" /\ failures = 1 /\ n = 0
    /\ commit

====
